---- MODULE Spec2Model ----
(***************************************************************************)
(* Model of the weather notification function (src/src/index.js): the      *)
(* analysis core analyzeWeather / analyzeRainTiming / formatRainTiming and  *)
(* the date helpers they use.                                               *)
(*                                                                          *)
(* Representation.                                                          *)
(*  - Instants are epoch SECONDS (JavaScript holds milliseconds; every      *)
(*    quantity the code adds is a whole number of seconds, and the date     *)
(*    and hour:minute fields it extracts ignore the milliseconds).          *)
(*  - A calendar date string "YYYY-MM-DD" is the day number since the       *)
(*    epoch (the two are in bijection).                                     *)
(*  - A time string "HH:MM" is the pair <<hour, minute>>.                   *)
(*  - An optional JavaScript property is a sequence of length 0 (absent,    *)
(*    undefined) or 1 (present).                                            *)
(*  - A category string is a sequence of one-character strings, so that     *)
(*    toLowerCase and includes are computed, not assumed.                   *)
(*  - Temperatures are tenths of a degree, precipitation volumes are        *)
(*    hundredths of a millimetre, pop is in thousandths.                    *)
(***************************************************************************)
EXTENDS Integers, Sequences, FiniteSets, TLC

VARIABLES
    weatherData,   \* the forecast set handed to the analysis
    clock,         \* the wall clock, in seconds since the epoch
    tzOffset,      \* Date.prototype.getTimezoneOffset() of the host, in minutes
    pc,            \* "ready", "done", "again"
    op,            \* the function last called
    nowStart,      \* the clock read by the last call's first getTodayDateString
    nowRain,       \* the clock read by the last call's analyzeRainTiming
    result,        \* what the last analyzeWeather call returned (or that it threw)
    first,         \* the clock reads and the result of the call before the last
    timingResult,  \* what the last direct analyzeRainTiming call returned
    events,        \* the rain events handed to formatRainTiming
    rendered,      \* what the last direct formatRainTiming call returned
    env,           \* process.env: the five configuration values
    hpc,           \* where the handler stands: "idle", "start", "fetch", ...
    startTime,     \* the handler's startTime
    emails,        \* the calls of sendEmailNotification, with their outcomes
    handlerResult, \* what the handler returned
    rpc,           \* where makeRequest stands: "idle", "request", "sleep", ...
    attempt,       \* makeRequest's loop counter
    attempts,      \* how the attempts issued so far were settled
    delays,        \* the sleeps of makeRequest, in milliseconds
    reqResult      \* what makeRequest returned or threw

requestVars == <<rpc, attempt, attempts, delays, reqResult>>
handlerVars == <<env, hpc, startTime, emails, handlerResult>>

vars == <<weatherData, clock, tzOffset, pc, op, nowStart, nowRain, result, first,
          timingResult, events, rendered, requestVars, handlerVars>>

(***************************************************************************)
(* Bounds of the model.                                                     *)
(***************************************************************************)
\* longest forecast list drawn
MaxLen == 2
\* longest list of rain events drawn for the formatter
MaxEvents == 5
\* the day (since the epoch) around which the clock and the forecasts lie
BaseDay == 20758
\* the most seconds the wall clock advances between two reads in one call
MaxTick == 1

(***************************************************************************)
(* Program constants.                                                       *)
(***************************************************************************)
TEMP_THRESHOLD == 30
HIGH_TEMP_THRESHOLD == 35
\* tomorrowRain.slice(0, 3)
TOMORROW_LIMIT == 3
\* timeZone: 'Asia/Bangkok' is UTC+7 the whole year, in minutes
BANGKOK_UTC_OFFSET_MIN == 420
\* rain.volume > 2.5, in hundredths of a millimetre
HEAVY_RAIN_VOLUME == 250

DAY == 24 * 60 * 60

\* the three sentinel messages, by their meaning
MSG_EMPTY == "cannot get the weather data"
MSG_NO_TODAY == "no weather data for today"
MSG_NO_TEMP == "cannot get the temperature data"
DESCRIPTION_UNKNOWN == "unknown"

(***************************************************************************)
(* Strings.                                                                 *)
(***************************************************************************)
toLowerCaseChar(c) ==
    CASE c = "R" -> "r" [] c = "T" -> "t" [] c = "D" -> "d" [] c = "C" -> "c"
      [] OTHER -> c

toLowerCase(s) == [i \in 1..Len(s) |-> toLowerCaseChar(s[i])]

includes(s, sub) ==
    \E i \in 1..(Len(s) - Len(sub) + 1) : SubSeq(s, i, i + Len(sub) - 1) = sub

STR_rain == <<"r", "a", "i", "n">>
STR_thunderstorm == <<"t", "h", "u", "n", "d", "e", "r", "s", "t", "o", "r", "m">>
STR_drizzle == <<"d", "r", "i", "z", "z", "l", "e">>
STR_cloud == <<"c", "l", "o", "u", "d">>

(***************************************************************************)
(* Dates.                                                                   *)
(***************************************************************************)
\* new Date(d.getTime() - d.getTimezoneOffset() * 60000)
ShiftByHostOffset(t, tz) == t - tz * 60

\* d.toISOString().split('T')[0]
ISODateString(t) == t \div DAY

\* new Date("YYYY-MM-DD"): midnight UTC of that date
ParseDateString(d) == d * DAY

getTodayDateString(now, tz) == ISODateString(ShiftByHostOffset(now, tz))

\* localTime.toLocaleTimeString('th-TH', {hour, minute, timeZone: 'Asia/Bangkok'})
toLocaleTimeString(t) ==
    LET s == (t + BANGKOK_UTC_OFFSET_MIN * 60) % DAY
    IN  <<s \div 3600, (s % 3600) \div 60>>

\* !item.dt is false
HasDt(item) == Len(item.dt) = 1 /\ item.dt[1] # 0

LocalItemDateString(item, tz) == ISODateString(ShiftByHostOffset(item.dt[1], tz))

(***************************************************************************)
(* analyzeRainTiming.                                                       *)
(***************************************************************************)
\* item.weather && item.weather[0]: <<>> when undefined, else <<element>>
FirstWeather(item) ==
    IF Len(item.weather) = 1 /\ Len(item.weather[1]) >= 1
    THEN <<item.weather[1][1]>>
    ELSE <<>>

\* weather.main.toLowerCase() raises a TypeError when main is undefined
MainThrows(item) == Len(FirstWeather(item)) = 1 /\ Len(FirstWeather(item)[1].main) = 0

IsRainFamily(condition) ==
    \/ includes(condition, STR_rain)
    \/ includes(condition, STR_thunderstorm)
    \/ includes(condition, STR_drizzle)

\* IsRelevant without tomorrow
IsRelevant_TodayOnly(item, todayStr, tz) ==
    HasDt(item) /\ LocalItemDateString(item, tz) = todayStr

\* the filter callback of relevantWeather
IsRelevant(item, todayStr, tz) ==
    /\ HasDt(item)
    /\ LET dateStr == LocalItemDateString(item, tz)
           today == ParseDateString(todayStr)
           tomorrow == today + 24 * 60 * 60
           tomorrowStr == ISODateString(tomorrow)
       IN  dateStr = todayStr \/ dateStr = tomorrowStr

\* item.pop ? Math.round(item.pop * 100) : 0, pop in thousandths
RainProbability(item) ==
    IF Len(item.pop) = 1 /\ item.pop[1] # 0 THEN (item.pop[1] + 5) \div 10 ELSE 0

\* item.rain ? (item.rain['3h'] || item.rain['1h'] || 0) : 0
RainVolume(item) ==
    IF Len(item.rain) = 0 THEN 0
    ELSE LET r == item.rain[1]
         IN  IF Len(r.h3) = 1 /\ r.h3[1] # 0 THEN r.h3[1]
             ELSE IF Len(r.h1) = 1 /\ r.h1[1] # 0 THEN r.h1[1]
             ELSE 0

\* the object pushed for an item that has rain
RainEvent(item, todayStr, tz) ==
    LET weather == FirstWeather(item)[1]
        localTime == ShiftByHostOffset(item.dt[1], tz)
    IN  [time |-> toLocaleTimeString(localTime),
         isToday |-> (ISODateString(localTime) = todayStr),
         probability |-> RainProbability(item),
         volume |-> RainVolume(item),
         description |-> weather.description,
         intensity |-> toLowerCase(weather.main[1])]

\* relevantWeather.forEach: the events pushed so far, until an item throws
RECURSIVE RainTimingLoop(_, _, _, _)
RainTimingLoop(items, todayStr, tz, acc) ==
    IF items = <<>> THEN [thrown |-> FALSE, list |-> acc]
    ELSE LET item == Head(items)
         IN  IF MainThrows(item) THEN [thrown |-> TRUE, list |-> <<>>]
             ELSE IF Len(FirstWeather(item)) = 1
                     /\ IsRainFamily(toLowerCase(FirstWeather(item)[1].main[1]))
                  THEN RainTimingLoop(Tail(items), todayStr, tz,
                                      Append(acc, RainEvent(item, todayStr, tz)))
                  ELSE RainTimingLoop(Tail(items), todayStr, tz, acc)

\* weatherData.list of null or undefined raises a TypeError, as does
\* undefined.filter
analyzeRainTiming(data, now, tz) ==
    IF ~data.present \/ ~data.hasList THEN [thrown |-> TRUE, list |-> <<>>]
    ELSE LET todayStr == getTodayDateString(now, tz)
             relevantWeather ==
                 SelectSeq(data.list, LAMBDA item : IsRelevant(item, todayStr, tz))
         IN  RainTimingLoop(relevantWeather, todayStr, tz, <<>>)

(***************************************************************************)
(* formatRainTiming. The message is a sequence of lines; a line is a       *)
(* record of its kind (tag) and the values interpolated into it.            *)
(***************************************************************************)
Line(tag, s, t, n, v) == [tag |-> tag, s |-> s, t |-> t, n |-> n, v |-> v]

TextLine(tag) == Line(tag, "", <<>>, 0, <<>>)

\* Number.prototype.toFixed(1) of hundredths, as tenths
toFixed1(v) == (v + 5) \div 10

IntensityEmoji(rain) ==
    IF includes(rain.intensity, STR_thunderstorm) THEN "thunderstorm"
    ELSE IF rain.volume > HEAVY_RAIN_VOLUME THEN "heavy-rain"
    ELSE "light-rain"

\* the line built for one rain event in either section
RainLine(section, rain) ==
    Line(section, IntensityEmoji(rain), rain.time, rain.probability,
         IF rain.volume > 0 THEN <<toFixed1(rain.volume)>> ELSE <<>>)

\* SliceTomorrow with slice(-3): the last three
SliceTomorrow_LastThree(s) ==
    SubSeq(s, IF Len(s) < TOMORROW_LIMIT THEN 1 ELSE Len(s) - TOMORROW_LIMIT + 1, Len(s))

\* tomorrowRain.slice(0, 3)
SliceTomorrow(s) == SubSeq(s, 1, IF Len(s) < TOMORROW_LIMIT THEN Len(s) ELSE TOMORROW_LIMIT)

formatRainTiming(forecast) ==
    IF Len(forecast) = 0 THEN <<>>
    ELSE LET todayRain == SelectSeq(forecast, LAMBDA r : r.isToday)
             tomorrowRain == SelectSeq(forecast, LAMBDA r : ~r.isToday)
             shown == SliceTomorrow(tomorrowRain)
         IN  <<TextLine("rain-forecast-header")>>
             \o (IF Len(todayRain) > 0
                 THEN <<TextLine("today-header")>>
                      \o [i \in 1..Len(todayRain) |-> RainLine("today-rain", todayRain[i])]
                 ELSE <<>>)
             \o (IF Len(tomorrowRain) > 0
                 THEN <<TextLine("tomorrow-header")>>
                      \o [i \in 1..Len(shown) |-> RainLine("tomorrow-rain", shown[i])]
                 ELSE <<>>)

(***************************************************************************)
(* analyzeWeather.                                                          *)
(***************************************************************************)
\* IsToday with the filter of analyzeRainTiming copied in: tomorrow passes too
IsToday_OrTomorrow(item, todayStr, tz) == IsRelevant(item, todayStr, tz)

\* the filter callback of todayWeather
IsToday(item, todayStr, tz) ==
    HasDt(item) /\ LocalItemDateString(item, tz) = todayStr

\* weather ? weather.main.toLowerCase() : '', then filter(Boolean)
RECURSIVE WeatherConditions(_)
WeatherConditions(items) ==
    IF items = <<>> THEN <<>>
    ELSE LET weather == FirstWeather(Head(items))
             c == IF Len(weather) = 1 THEN toLowerCase(weather[1].main[1]) ELSE <<>>
         IN  (IF Len(c) > 0 THEN <<c>> ELSE <<>>) \o WeatherConditions(Tail(items))

\* typeof temp === 'number' && !isNaN(temp), of item.main && item.main.temp
IsNumericTemp(item) ==
    Len(item.main) = 1 /\ item.main[1].temp.type = "number"

RECURSIVE Temps(_)
Temps(items) ==
    IF items = <<>> THEN <<>>
    ELSE (IF IsNumericTemp(Head(items)) THEN <<Head(items).main[1].temp.value>> ELSE <<>>)
         \o Temps(Tail(items))

RECURSIVE MathMax(_)
MathMax(temps) ==
    IF Len(temps) = 1 THEN temps[1]
    ELSE LET m == MathMax(Tail(temps)) IN IF temps[1] > m THEN temps[1] ELSE m

RECURSIVE MathMin(_)
MathMin(temps) ==
    IF Len(temps) = 1 THEN temps[1]
    ELSE LET m == MathMin(Tail(temps)) IN IF temps[1] < m THEN temps[1] ELSE m

\* temps.reduce((a, b) => a + b, 0)
RECURSIVE SumTemps(_)
SumTemps(temps) == IF temps = <<>> THEN 0 ELSE temps[1] + SumTemps(Tail(temps))

\* AvgBelowThreshold with <= for <
AvgBelowThreshold_Inclusive(temps) == SumTemps(temps) <= TEMP_THRESHOLD * 10 * Len(temps)

\* avgTemp < CONFIG.TEMP_THRESHOLD, avgTemp = sum / length in tenths of a degree
AvgBelowThreshold(temps) == SumTemps(temps) < TEMP_THRESHOLD * 10 * Len(temps)

\* MaxAboveThreshold with minTemp for maxTemp
MaxAboveThreshold_Min(temps) == MathMin(temps) > HIGH_TEMP_THRESHOLD * 10

\* maxTemp > CONFIG.HIGH_TEMP_THRESHOLD, in tenths of a degree
MaxAboveThreshold(temps) == MathMax(temps) > HIGH_TEMP_THRESHOLD * 10

\* firstWeather ? firstWeather.description : 'unknown'; an undefined
\* description is interpolated as the text "undefined"
Description(todayWeather) ==
    LET firstWeather == FirstWeather(todayWeather[1])
    IN  IF Len(firstWeather) = 1
        THEN (IF Len(firstWeather[1].description) = 1
              THEN firstWeather[1].description[1] ELSE "undefined")
        ELSE DESCRIPTION_UNKNOWN

\* the location line also carries the coordinates of process.env, which the
\* analysis only formats; they are the same in every call and are left out
CityName(data) == IF Len(data.city) = 1 THEN data.city[1] ELSE "Unknown Location"

Returned(message, forecast) == [thrown |-> FALSE, message |-> message, rainForecast |-> forecast]

\* a TypeError leaves analyzeWeather; message is the local variable as built so far
Thrown(message) == [thrown |-> TRUE, message |-> message, rainForecast |-> <<>>]

\* DryingLines with the cloud test ahead of the rain test
DryingLines_CloudsFirst(hasRain, hasClouds, temps) ==
    IF hasClouds /\ AvgBelowThreshold(temps)
    THEN <<TextLine("drying-damp-risk"), TextLine("drying-damp-risk-ventilate")>>
    ELSE IF hasRain THEN <<TextLine("drying-rain"), TextLine("drying-rain-indoors")>>
         ELSE <<TextLine("drying-good"), TextLine("drying-good-sunny")>>

\* the washing recommendation
DryingLines(hasRain, hasClouds, temps) ==
    IF hasRain THEN <<TextLine("drying-rain"), TextLine("drying-rain-indoors")>>
    ELSE IF hasClouds /\ AvgBelowThreshold(temps)
         THEN <<TextLine("drying-damp-risk"), TextLine("drying-damp-risk-ventilate")>>
         ELSE <<TextLine("drying-good"), TextLine("drying-good-sunny")>>

\* UmbrellaLines with rainForecast[0] for rainForecast.find(r => r.isToday)
UmbrellaLines_FirstEvent(hasRain, temps, forecast) ==
    IF hasRain
    THEN <<TextLine("umbrella-bring-rain")>>
         \o (IF Len(forecast) > 0
             THEN <<Line("rain-onset", "", forecast[1].time, 0, <<>>)>>
             ELSE <<>>)
    ELSE IF MaxAboveThreshold(temps) THEN <<TextLine("umbrella-bring-sun")>>
         ELSE <<TextLine("umbrella-not-needed")>>

\* the umbrella recommendation, with the time of the first rain event of today
UmbrellaLines(hasRain, temps, forecast) ==
    IF hasRain
    THEN <<TextLine("umbrella-bring-rain")>>
         \o (LET today == SelectSeq(forecast, LAMBDA r : r.isToday)
             IN  IF Len(forecast) > 0 /\ Len(today) > 0
                 THEN <<Line("rain-onset", "", today[1].time, 0, <<>>)>>
                 ELSE <<>>)
    ELSE IF MaxAboveThreshold(temps) THEN <<TextLine("umbrella-bring-sun")>>
         ELSE <<TextLine("umbrella-not-needed")>>

\* IsEmptyInput without the test of the length
IsEmptyInput_NoLength(data) == ~data.present \/ ~data.hasList

\* !weatherData || !weatherData.list || weatherData.list.length === 0
IsEmptyInput(data) == ~data.present \/ ~data.hasList \/ Len(data.list) = 0

\* now is the clock read by analyzeWeather's getTodayDateString, nowTiming the
\* one read by analyzeRainTiming's
analyzeWeather(data, now, nowTiming, tz) ==
    IF IsEmptyInput(data)
    THEN Returned(<<TextLine(MSG_EMPTY)>>, <<>>)
    ELSE
    LET todayStr == getTodayDateString(now, tz)
        todayWeather == SelectSeq(data.list, LAMBDA item : IsToday(item, todayStr, tz))
    IN
    IF Len(todayWeather) = 0 THEN Returned(<<TextLine(MSG_NO_TODAY)>>, <<>>)
    ELSE IF \E i \in 1..Len(todayWeather) : MainThrows(todayWeather[i]) THEN Thrown(<<>>)
    ELSE
    LET weatherConditions == WeatherConditions(todayWeather)
        hasRain == \E i \in 1..Len(weatherConditions) : IsRainFamily(weatherConditions[i])
        hasClouds == \E i \in 1..Len(weatherConditions) :
                        includes(weatherConditions[i], STR_cloud)
        temps == Temps(todayWeather)
    IN
    IF Len(temps) = 0 THEN Returned(<<TextLine(MSG_NO_TEMP)>>, <<>>)
    ELSE
    LET head == <<TextLine("title"),
                  Line("location", CityName(data), <<>>, 0, <<>>),
                  Line("temperature", "", <<>>, MathMin(temps), <<MathMax(temps)>>),
                  Line("condition", Description(todayWeather), <<>>, 0, <<>>)>>
                \o DryingLines(hasRain, hasClouds, temps)
        timing == analyzeRainTiming(data, nowTiming, tz)
    IN
    IF timing.thrown THEN Thrown(head)
    ELSE Returned(head \o formatRainTiming(timing.list)
                       \o UmbrellaLines(hasRain, temps, timing.list),
                  timing.list)

(***************************************************************************)
(* The inputs drawn.                                                        *)
(***************************************************************************)
CAT_Rain == <<"R", "a", "i", "n">>
CAT_Thunderstorm == <<"T", "h", "u", "n", "d", "e", "r", "s", "t", "o", "r", "m">>
CAT_Drizzle == <<"D", "r", "i", "z", "z", "l", "e">>
CAT_Clouds == <<"C", "l", "o", "u", "d", "s">>
CAT_Clear == <<"C", "l", "e", "a", "r">>

\* weather: [{main, description}]
WeatherOf(cat, desc) == <<<<[main |-> <<cat>>, description |-> <<desc>>]>>>>

Weathers ==
    { <<>>,                                            \* no weather property
      <<<<>>>>,                                        \* weather: []
      <<<<[main |-> <<>>, description |-> <<>>]>>>>,   \* weather: [{}]
      WeatherOf(CAT_Rain, "light rain"),
      WeatherOf(CAT_Thunderstorm, "thunderstorm"),
      WeatherOf(CAT_Drizzle, "drizzle"),
      WeatherOf(CAT_Clouds, "scattered clouds"),
      WeatherOf(CAT_Clear, "clear sky") }

NumTemp(v) == <<[temp |-> [type |-> "number", value |-> v]]>>

\* main: {temp: 25}
Temp25 == NumTemp(250)

OtherMains ==
    { <<>>,                                              \* no main block
      <<[temp |-> [type |-> "undefined", value |-> 0]]>>, \* main: {}
      <<[temp |-> [type |-> "string", value |-> 0]]>>,    \* main: {temp: "25"}
      <<[temp |-> [type |-> "NaN", value |-> 0]]>>,       \* main: {temp: NaN}
      NumTemp(300), NumTemp(350), NumTemp(360) }

\* 23:00 UTC of the day before BaseDay: 06:00 of BaseDay in Bangkok
NowMorning == (BaseDay - 1) * DAY + 23 * 3600
\* one second before midnight UTC of BaseDay
NowBeforeMidnight == BaseDay * DAY + 23 * 3600 + 59 * 60 + 59

Nows == {NowMorning, NowBeforeMidnight}

\* a host on UTC, and a host on Bangkok time
HostOffsets == {0, -BANGKOK_UTC_OFFSET_MIN}

\* 06:30, 14:00 of BaseDay and 10:30 of the next day, in Bangkok
DtEarly == (BaseDay - 1) * DAY + 23 * 3600 + 30 * 60
DtAfternoon == BaseDay * DAY + 7 * 3600
DtNextDay == (BaseDay + 1) * DAY + 3 * 3600 + 30 * 60

Dts == {<<>>, <<DtEarly>>, <<DtAfternoon>>, <<DtNextDay>>}

Entry(dt, weather, main, pop, rain) ==
    [dt |-> dt, weather |-> weather, main |-> main, pop |-> pop, rain |-> rain]

Entries ==
    \* every shape of the weather property, in the afternoon of BaseDay
    { Entry(<<DtAfternoon>>, w, Temp25, <<>>, <<>>) : w \in Weathers }
    \* the other timestamps, and no timestamp
    \cup { Entry(dt, w, Temp25, <<>>, <<>>) :
             dt \in Dts \ {<<DtAfternoon>>},
             w \in {WeatherOf(CAT_Rain, "light rain"),
                    WeatherOf(CAT_Clouds, "scattered clouds"),
                    <<<<[main |-> <<>>, description |-> <<>>]>>>>} }
    \* every shape of the main block
    \cup { Entry(<<DtAfternoon>>, w, m, <<>>, <<>>) :
             w \in {WeatherOf(CAT_Clouds, "scattered clouds"),
                    WeatherOf(CAT_Clear, "clear sky")},
             m \in OtherMains }
    \cup { Entry(<<DtAfternoon>>, WeatherOf(CAT_Rain, "light rain"), <<>>, <<>>, <<>>),
           Entry(<<DtAfternoon>>, <<<<[main |-> <<>>, description |-> <<"mist">>]>>>>,
                 <<>>, <<>>, <<>>) }
    \* rain with a probability and a volume
    \cup { Entry(<<DtAfternoon>>, WeatherOf(CAT_Rain, "light rain"), Temp25,
                 <<600>>, <<[h3 |-> <<420>>, h1 |-> <<>>]>>),
           Entry(<<DtNextDay>>, WeatherOf(CAT_Rain, "light rain"), Temp25,
                 <<0>>, <<[h3 |-> <<0>>, h1 |-> <<150>>]>>) }

SeqsUpTo(S, n) == UNION { [1..k -> S] : k \in 0..n }

Data(list) == [present |-> TRUE, hasList |-> TRUE, list |-> list, city |-> <<"Bangkok">>]

\* null, and an object without a list
NoData == [present |-> FALSE, hasList |-> FALSE, list |-> <<>>, city |-> <<>>]
NoList == [present |-> TRUE, hasList |-> FALSE, list |-> <<>>, city |-> <<>>]

DataSets == { Data(l) : l \in SeqsUpTo(Entries, MaxLen) } \cup {NoData, NoList}

NoResult == [thrown |-> FALSE, message |-> <<>>, rainForecast |-> <<>>]
NoTiming == [thrown |-> FALSE, list |-> <<>>]
NoCall == [nowStart |-> 0, nowRain |-> 0, result |-> NoResult]

(***************************************************************************)
(* Configuration: process.env and validateEnvironment.  A value of the      *)
(* environment is a sequence of one-character strings; a variable that is   *)
(* not set is <<>>, one that is set is <<value>>.                           *)
(***************************************************************************)
MAX_RETRIES == 3
\* milliseconds
RETRY_DELAY == 1000
\* req.setTimeout(10000, ...), milliseconds
REQUEST_TIMEOUT == 10000
\* res.statusCode >= 400
HTTP_ERROR_STATUS == 400
MAX_LATITUDE == 90
MAX_LONGITUDE == 180
\* Globals.Function.Timeout of the template, seconds
LAMBDA_TIMEOUT == 30

\* !process.env[key]: not set, or the empty string
IsMissing(v) == Len(v) = 0 \/ Len(v[1]) = 0

\* \s of a regular expression, as far as the values drawn have any
WhiteSpace == {" ", "\t", "\n"}

\* /^[^\s@]+@[^\s@]+\.[^\s@]+$/.test(s)
emailRegexTest(s) ==
    \E i \in 2..Len(s) :
        /\ s[i] = "@"
        /\ \A k \in 1..Len(s) : k # i => s[k] \notin (WhiteSpace \cup {"@"})
        /\ \E j \in (i + 2)..(Len(s) - 1) : s[j] = "."

DigitChars == <<"0", "1", "2", "3", "4", "5", "6", "7", "8", "9">>

IsDigit(c) == \E d \in 1..10 : DigitChars[d] = c

DigitValue(c) == (CHOOSE d \in 1..10 : DigitChars[d] = c) - 1

\* the number of white-space characters of s from position i on
RECURSIVE SpaceRun(_, _)
SpaceRun(s, i) ==
    IF i <= Len(s) /\ s[i] \in WhiteSpace THEN 1 + SpaceRun(s, i + 1) ELSE 0

\* the number of digits of s from position i on
RECURSIVE DigitRun(_, _)
DigitRun(s, i) ==
    IF i <= Len(s) /\ IsDigit(s[i]) THEN 1 + DigitRun(s, i + 1) ELSE 0

\* the value of the n digits of s from position i on
RECURSIVE DigitsValue(_, _, _)
DigitsValue(s, i, n) ==
    IF n = 0 THEN 0 ELSE DigitsValue(s, i, n - 1) * 10 + DigitValue(s[i + n - 1])

\* the m digits after the point, in thousandths (the values drawn have at
\* most three of them)
FractionValue(s, i, m) ==
    (IF m >= 1 THEN DigitValue(s[i]) * 100 ELSE 0)
    + (IF m >= 2 THEN DigitValue(s[i + 1]) * 10 ELSE 0)
    + (IF m >= 3 THEN DigitValue(s[i + 2]) ELSE 0)

NaN == [nan |-> TRUE, value |-> 0]

\* parseFloat(s), in thousandths: leading white space, a sign, the longest
\* prefix that is a decimal literal; whatever follows is ignored.  Exponents
\* and "Infinity" are not among the values drawn.
parseFloat(s) ==
    LET p == SpaceRun(s, 1) + 1
        signed == p <= Len(s) /\ s[p] \in {"-", "+"}
        negative == p <= Len(s) /\ s[p] = "-"
        q == IF signed THEN p + 1 ELSE p
        n == DigitRun(s, q)
        point == q + n <= Len(s) /\ s[q + n] = "."
        m == IF point THEN DigitRun(s, q + n + 1) ELSE 0
        magnitude == DigitsValue(s, q, n) * 1000 + FractionValue(s, q + n + 1, m)
    IN  IF n = 0 /\ m = 0 THEN NaN
        ELSE [nan |-> FALSE, value |-> IF negative THEN 0 - magnitude ELSE magnitude]

\* isNaN(x) || x < -limit || x > limit
OutOfRange(x, limit) == x.nan \/ x.value < 0 - limit * 1000 \/ x.value > limit * 1000

RequiredKeys ==
    <<"OPENWEATHER_API_KEY", "SENDER_EMAIL", "RECIPIENT_EMAIL", "LATITUDE", "LONGITUDE">>

\* validateEnvironment(): the message of the error it throws, "" when it returns
validateEnvironment(e) ==
    IF \E k \in 1..Len(RequiredKeys) : IsMissing(e[RequiredKeys[k]])
        THEN "Missing required environment variables"
    ELSE IF ~emailRegexTest(e.SENDER_EMAIL[1]) THEN "Invalid SENDER_EMAIL format."
    ELSE IF ~emailRegexTest(e.RECIPIENT_EMAIL[1]) THEN "Invalid RECIPIENT_EMAIL format."
    ELSE IF OutOfRange(parseFloat(e.LATITUDE[1]), MAX_LATITUDE)
        THEN "Invalid LATITUDE value. Must be between -90 and 90."
    ELSE IF OutOfRange(parseFloat(e.LONGITUDE[1]), MAX_LONGITUDE)
        THEN "Invalid LONGITUDE value. Must be between -180 and 180."
    ELSE ""

\* the values of the environment drawn
STR_key == <<"k", "1">>
STR_sender == <<"a", "@", "b", ".", "c">>
STR_recipient == <<"m", "e", "@", "x", ".", "y">>
STR_no_at == <<"a", ".", "b">>
STR_no_dot == <<"a", "@", "b">>
STR_spaced == <<"a", " ", "@", "b", ".", "c">>
STR_two_at == <<"a", "@", "@", "b", ".", "c">>
STR_13_75 == <<"1", "3", ".", "7", "5">>
STR_minus_90 == <<"-", "9", "0">>
STR_90_001 == <<"9", "0", ".", "0", "0", "1">>
STR_minus_91 == <<"-", "9", "1">>
STR_abc == <<"a", "b", "c">>
STR_13_75N == <<"1", "3", ".", "7", "5", "N">>
STR_100_5 == <<"1", "0", "0", ".", "5">>
STR_180 == <<"1", "8", "0">>
STR_181 == <<"1", "8", "1">>
STR_minus_180_5 == <<"-", "1", "8", "0", ".", "5">>
STR_100_comma_5 == <<"1", "0", "0", ",", "5">>

NotSet == <<>>
EmptyString == <<<<>>>>

ApiKeys == {NotSet, EmptyString, <<STR_key>>}
SenderEmails == {NotSet, <<STR_sender>>, <<STR_no_at>>, <<STR_spaced>>}
RecipientEmails == {NotSet, EmptyString, <<STR_recipient>>, <<STR_no_dot>>, <<STR_two_at>>}
Latitudes ==
    {NotSet, <<STR_13_75>>, <<STR_minus_90>>, <<STR_90_001>>, <<STR_minus_91>>,
     <<STR_abc>>, <<STR_13_75N>>}
Longitudes ==
    {NotSet, <<STR_100_5>>, <<STR_180>>, <<STR_181>>, <<STR_minus_180_5>>,
     <<STR_abc>>, <<STR_100_comma_5>>}

Environments ==
    [OPENWEATHER_API_KEY : ApiKeys, SENDER_EMAIL : SenderEmails,
     RECIPIENT_EMAIL : RecipientEmails, LATITUDE : Latitudes, LONGITUDE : Longitudes]

NoEnvironment ==
    [OPENWEATHER_API_KEY |-> NotSet, SENDER_EMAIL |-> NotSet, RECIPIENT_EMAIL |-> NotSet,
     LATITUDE |-> NotSet, LONGITUDE |-> NotSet]

(***************************************************************************)
(* Before makeRequest and the handler are called.                           *)
(***************************************************************************)
Undefined == [type |-> "undefined", cod |-> <<>>, data |-> NoData]

NoRequestResult == [thrown |-> FALSE, value |-> Undefined, error |-> "", status |-> 0]

RequestIdle ==
    /\ rpc = "idle"
    /\ attempt = 0
    /\ attempts = <<>>
    /\ delays = <<>>
    /\ reqResult = NoRequestResult

NoHandlerResult == [returned |-> FALSE, statusCode |-> 0, error |-> ""]

HandlerIdle ==
    /\ env = NoEnvironment
    /\ hpc = "idle"
    /\ startTime = 0
    /\ emails = <<>>
    /\ handlerResult = NoHandlerResult

(***************************************************************************)
(* The state machine: one call of a function of the core is one step.       *)
(***************************************************************************)
Init ==
    /\ weatherData \in DataSets
    /\ clock \in Nows
    /\ tzOffset \in HostOffsets
    /\ pc = "ready"
    /\ op = "none"
    /\ nowStart = 0
    /\ nowRain = 0
    /\ result = NoResult
    /\ first = NoCall
    /\ timingResult = NoTiming
    /\ events = <<>>
    /\ rendered = <<>>
    /\ RequestIdle
    /\ HandlerIdle

\* analyzeWeather(weatherData); the clock may advance between its two reads
CallAnalyzeWeather ==
    \E tick \in 0..MaxTick :
        /\ nowStart' = clock
        /\ nowRain' = clock + tick
        /\ clock' = clock + tick
        /\ result' = analyzeWeather(weatherData, clock, clock + tick, tzOffset)
        /\ op' = "analyzeWeather"
        /\ UNCHANGED <<weatherData, tzOffset, timingResult, events, rendered>>
        /\ UNCHANGED <<requestVars, handlerVars>>

AnalyzeWeatherCall ==
    /\ pc = "ready"
    /\ CallAnalyzeWeather
    /\ pc' = "done"
    /\ UNCHANGED first

\* analyzeRainTiming(weatherData), called on its own
AnalyzeRainTimingCall ==
    /\ pc = "ready"
    /\ nowRain' = clock
    /\ timingResult' = analyzeRainTiming(weatherData, clock, tzOffset)
    /\ op' = "analyzeRainTiming"
    /\ pc' = "done"
    /\ UNCHANGED <<weatherData, clock, tzOffset, nowStart, result, first, events, rendered>>
    /\ UNCHANGED <<requestVars, handlerVars>>

Next == AnalyzeWeatherCall \/ AnalyzeRainTimingCall

Spec == Init /\ [][Next]_vars

(***************************************************************************)
(* Two calls of analyzeWeather in a row, on the same forecast set.          *)
(***************************************************************************)
AnalyzeWeatherAgain ==
    /\ pc = "done"
    /\ op = "analyzeWeather"
    /\ first' = [nowStart |-> nowStart, nowRain |-> nowRain, result |-> result]
    /\ CallAnalyzeWeather
    /\ pc' = "again"

NextTwice == AnalyzeWeatherCall \/ AnalyzeWeatherAgain

SpecTwice == Init /\ [][NextTwice]_vars

(***************************************************************************)
(* formatRainTiming on its own, over lists of rain events.                  *)
(***************************************************************************)
Event(time, isToday, probability, volume, intensity) ==
    [time |-> time, isToday |-> isToday, probability |-> probability,
     volume |-> volume, description |-> <<"rain">>, intensity |-> intensity]

RainEvents ==
    { Event(t, d, 60, 120, STR_rain) : t \in {<<6, 30>>, <<14, 0>>, <<10, 30>>}, d \in BOOLEAN }
    \cup { Event(<<17, 0>>, FALSE, 0, 0, STR_thunderstorm),
           Event(<<20, 0>>, TRUE, 100, 420, STR_rain) }

InitFormat ==
    /\ weatherData = NoData
    /\ clock = NowMorning
    /\ tzOffset = 0
    /\ pc = "ready"
    /\ op = "none"
    /\ nowStart = 0
    /\ nowRain = 0
    /\ result = NoResult
    /\ first = NoCall
    /\ timingResult = NoTiming
    /\ events \in SeqsUpTo(RainEvents, MaxEvents)
    /\ rendered = <<>>
    /\ RequestIdle
    /\ HandlerIdle

FormatRainTimingCall ==
    /\ pc = "ready"
    /\ rendered' = formatRainTiming(events)
    /\ op' = "formatRainTiming"
    /\ pc' = "done"
    /\ UNCHANGED <<weatherData, clock, tzOffset, nowStart, nowRain, result, first,
                   timingResult, events>>
    /\ UNCHANGED <<requestVars, handlerVars>>

NextFormat == FormatRainTimingCall

SpecFormat == InitFormat /\ [][NextFormat]_vars

(***************************************************************************)
(* makeRequest: the attempts of one HTTPS request.  The body of a response  *)
(* is known by what JSON.parse makes of it.                                 *)
(***************************************************************************)
\* data.cod: a string or a number
Cod(type, value) == <<[type |-> type, value |-> value]>>

\* what an attempt resolves with: a parsed object, null, or the raw text
\* (Undefined stands for no value at all)
JsonObject(cod, data) == [type |-> "object", cod |-> cod, data |-> data]
JsonNull == [type |-> "null", cod |-> <<>>, data |-> NoData]
RawText == [type |-> "string", cod |-> <<>>, data |-> NoList]

\* the forecast lists the service answers with
ResponseLists ==
    { <<>>,
      <<Entry(<<DtAfternoon>>, WeatherOf(CAT_Rain, "light rain"), Temp25, <<>>, <<>>)>>,
      <<Entry(<<DtAfternoon>>, WeatherOf(CAT_Clear, "clear sky"), NumTemp(360), <<>>, <<>>)>>,
      <<Entry(<<DtAfternoon>>, <<<<[main |-> <<>>, description |-> <<"mist">>]>>>>,
              Temp25, <<>>, <<>>)>> }

\* the bodies of the responses with a status below 400
ResponseBodies ==
    { JsonObject(Cod("string", 200), Data(l)) : l \in ResponseLists }
    \cup { JsonObject(<<>>, Data(<<>>)),
           JsonObject(Cod("number", 200), NoList),
           JsonObject(Cod("string", 401), NoList),
           JsonNull, RawText }

\* what ends an attempt: a response, an 'error' of the request, the time-out
Response(status, body) == [event |-> "response", status |-> status, body |-> body]
NetworkError == [event |-> "error", status |-> 0, body |-> Undefined]
TimeOut == [event |-> "timeout", status |-> 0, body |-> Undefined]

Responses ==
    { Response(200, b) : b \in ResponseBodies }
    \cup { Response(s, RawText) : s \in {399, 400, 401, 503} }
    \cup {NetworkError, TimeOut}

Resolved(value) == [resolved |-> TRUE, value |-> value, error |-> "", status |-> 0]
Rejected(error, status) ==
    [resolved |-> FALSE, value |-> Undefined, error |-> error, status |-> status]

\* res.statusCode >= 400
IsHttpError(status) == status >= HTTP_ERROR_STATUS

\* how the promise of one attempt is settled
Settle(r) ==
    CASE r.event = "response" ->
             IF IsHttpError(r.status) THEN Rejected("HTTP", r.status)
             ELSE Resolved(r.body)
      [] r.event = "error" -> Rejected("network", 0)
      [] r.event = "timeout" -> Rejected("Request timeout", 0)

\* the seconds an attempt takes at least: the time-out fires after 10 s
Duration(r) == IF r.event = "timeout" THEN REQUEST_TIMEOUT \div 1000 ELSE 0

\* sleep(CONFIG.RETRY_DELAY * attempt) with the factor left out
RetryDelay_Flat(a) == RETRY_DELAY

\* sleep(CONFIG.RETRY_DELAY * attempt)
RetryDelay(a) == RETRY_DELAY * a

\* attempt <= retries, retries being CONFIG.MAX_RETRIES; the loop left
\* without a return makes the function return undefined
EnterLoop(a) == IF a <= MAX_RETRIES THEN "request" ELSE "returned"

\* the invocation is ended by the platform LAMBDA_TIMEOUT seconds after its
\* start; outside the handler nothing ends a wait
InTime(seconds) == hpc = "idle" \/ clock + seconds - startTime < LAMBDA_TIMEOUT

\* makeRequest(options) is called
MakeRequestCall ==
    /\ rpc = "idle"
    /\ hpc = "idle"
    /\ attempt' = 1
    /\ rpc' = EnterLoop(1)
    /\ UNCHANGED <<attempts, delays, reqResult>>
    /\ UNCHANGED <<weatherData, clock, tzOffset, pc, op, nowStart, nowRain, result, first,
                   timingResult, events, rendered, handlerVars>>

\* the promise of the attempt is settled: return, throw, or sleep
RequestSettles ==
    /\ rpc = "request"
    /\ \E r \in Responses :
        LET o == Settle(r)
        IN  /\ InTime(Duration(r))
            /\ clock' = clock + Duration(r)
            /\ attempts' = Append(attempts, o)
            /\ IF o.resolved
               THEN /\ reqResult' = [thrown |-> FALSE, value |-> o.value,
                                     error |-> "", status |-> 0]
                    /\ rpc' = "returned"
                    /\ UNCHANGED delays
               ELSE IF attempt = MAX_RETRIES
               THEN /\ reqResult' = [thrown |-> TRUE, value |-> Undefined,
                                     error |-> o.error, status |-> o.status]
                    /\ rpc' = "thrown"
                    /\ UNCHANGED delays
               ELSE /\ delays' = Append(delays, RetryDelay(attempt))
                    /\ rpc' = "sleep"
                    /\ UNCHANGED reqResult
    /\ UNCHANGED attempt
    /\ UNCHANGED <<weatherData, tzOffset, pc, op, nowStart, nowRain, result, first,
                   timingResult, events, rendered, handlerVars>>

\* the sleep is over: attempt++
SleepEnds ==
    /\ rpc = "sleep"
    /\ InTime(delays[Len(delays)] \div 1000)
    /\ clock' = clock + delays[Len(delays)] \div 1000
    /\ attempt' = attempt + 1
    /\ rpc' = EnterLoop(attempt + 1)
    /\ UNCHANGED <<attempts, delays, reqResult>>
    /\ UNCHANGED <<weatherData, tzOffset, pc, op, nowStart, nowRain, result, first,
                   timingResult, events, rendered, handlerVars>>

InitRetry ==
    /\ weatherData = NoData
    /\ clock \in Nows
    /\ tzOffset = 0
    /\ pc = "ready"
    /\ op = "none"
    /\ nowStart = 0
    /\ nowRain = 0
    /\ result = NoResult
    /\ first = NoCall
    /\ timingResult = NoTiming
    /\ events = <<>>
    /\ rendered = <<>>
    /\ RequestIdle
    /\ HandlerIdle

NextRetry == MakeRequestCall \/ RequestSettles \/ SleepEnds

\* the event loop runs every continuation that is ready, and every attempt is
\* settled: by its response, by an error, or by its time-out
SpecRetry == InitRetry /\ [][NextRetry]_vars /\ WF_vars(NextRetry)

(***************************************************************************)
(* exports.handler: one step is what runs between two awaits.               *)
(***************************************************************************)
\* a call of sendEmailNotification: "report" or "error", and how it ended:
\* "pending" (ses.sendEmail in flight), "sent", "failed" (rejected by the
\* service), "unsent" (thrown before ses.sendEmail)
Email(kind, outcome) == [kind |-> kind, outcome |-> outcome]

\* sendEmailNotification up to ses.sendEmail: the subject and the HTML body
\* the handler passes are non-empty strings, the addresses have to be set
AddressesMissing(e) == IsMissing(e.SENDER_EMAIL) \/ IsMissing(e.RECIPIENT_EMAIL)

\* the catch block of the handler, up to the await of the error e-mail
CatchBlock(message, log) ==
    IF AddressesMissing(env)
    THEN /\ emails' = Append(log, Email("error", "unsent"))
         /\ handlerResult' = [returned |-> TRUE, statusCode |-> 500, error |-> message]
         /\ hpc' = "returned"
    ELSE /\ emails' = Append(log, Email("error", "pending"))
         /\ handlerResult' = [returned |-> FALSE, statusCode |-> 0, error |-> message]
         /\ hpc' = "send-error"

\* data.cod && data.cod !== '200' && data.cod !== 200
IsApiError(data) ==
    /\ Len(data.cod) = 1
    /\ data.cod[1].value # 0
    /\ data.cod[1].value # 200

\* getWeatherData after makeRequest returned: the error it throws, "" if none
ValidateResponse(data) ==
    IF data.type \in {"null", "undefined"} THEN "TypeError"
    ELSE IF IsApiError(data) THEN "OpenWeatherMap API error"
    ELSE IF ~data.data.hasList THEN "Invalid weather data format received from API"
    ELSE ""

\* the handler is invoked: validateEnvironment, then getWeatherData as far
\* as the first attempt of its request
HandlerStart ==
    /\ hpc = "start"
    /\ startTime' = clock
    /\ IF validateEnvironment(env) # ""
       THEN /\ CatchBlock(validateEnvironment(env), emails)
            /\ UNCHANGED <<rpc, attempt>>
       ELSE /\ hpc' = "fetch"
            /\ attempt' = 1
            /\ rpc' = EnterLoop(1)
            /\ UNCHANGED <<emails, handlerResult>>
    /\ UNCHANGED <<env, attempts, delays, reqResult>>
    /\ UNCHANGED <<weatherData, clock, tzOffset, pc, op, nowStart, nowRain, result, first,
                   timingResult, events, rendered>>

\* makeRequest is over: the rest of getWeatherData, analyzeWeather, and
\* sendEmailNotification as far as ses.sendEmail
AfterFetch ==
    /\ hpc = "fetch"
    /\ rpc \in {"returned", "thrown"}
    /\ IF reqResult.thrown
       THEN /\ CatchBlock(reqResult.error, emails)
            /\ UNCHANGED <<weatherData, clock, op, nowStart, nowRain, result>>
       ELSE IF ValidateResponse(reqResult.value) # ""
       THEN /\ CatchBlock(ValidateResponse(reqResult.value), emails)
            /\ UNCHANGED <<weatherData, clock, op, nowStart, nowRain, result>>
       ELSE \E tick \in 0..MaxTick :
            /\ weatherData' = reqResult.value.data
            /\ nowStart' = clock
            /\ nowRain' = clock + tick
            /\ clock' = clock + tick
            /\ op' = "analyzeWeather"
            /\ result' = analyzeWeather(reqResult.value.data, clock, clock + tick, tzOffset)
            /\ IF result'.thrown
               THEN CatchBlock("TypeError", emails)
               ELSE IF AddressesMissing(env)
               THEN CatchBlock("Both SENDER_EMAIL and RECIPIENT_EMAIL are required",
                               Append(emails, Email("report", "unsent")))
               ELSE /\ emails' = Append(emails, Email("report", "pending"))
                    /\ hpc' = "send-report"
                    /\ UNCHANGED handlerResult
    /\ UNCHANGED <<env, startTime, requestVars>>
    /\ UNCHANGED <<tzOffset, pc, first, timingResult, events, rendered>>

\* the log with the outcome of the e-mail in flight
Settled(log, outcome) == [log EXCEPT ![Len(log)].outcome = outcome]

\* ses.sendEmail of the report is over
ReportEmailSettles ==
    /\ hpc = "send-report"
    /\ \/ /\ emails' = Settled(emails, "sent")
          /\ handlerResult' = [returned |-> TRUE, statusCode |-> 200, error |-> ""]
          /\ hpc' = "returned"
       \/ CatchBlock("Failed to send email", Settled(emails, "failed"))
    /\ UNCHANGED <<env, startTime, requestVars>>
    /\ UNCHANGED <<weatherData, clock, tzOffset, pc, op, nowStart, nowRain, result, first,
                   timingResult, events, rendered>>

\* ses.sendEmail of the error notification is over; its failure is logged
ErrorEmailSettles ==
    /\ hpc = "send-error"
    /\ \E outcome \in {"sent", "failed"} : emails' = Settled(emails, outcome)
    /\ handlerResult' = [handlerResult EXCEPT !.returned = TRUE, !.statusCode = 500]
    /\ hpc' = "returned"
    /\ UNCHANGED <<env, startTime, requestVars>>
    /\ UNCHANGED <<weatherData, clock, tzOffset, pc, op, nowStart, nowRain, result, first,
                   timingResult, events, rendered>>

\* the platform ends the invocation LAMBDA_TIMEOUT seconds after its start,
\* while an attempt that gets no answer waits for its time-out
LambdaTimeout ==
    /\ hpc = "fetch"
    /\ rpc = "request"
    /\ ~InTime(REQUEST_TIMEOUT \div 1000)
    /\ clock' = startTime + LAMBDA_TIMEOUT
    /\ hpc' = "killed"
    /\ UNCHANGED <<env, startTime, emails, handlerResult, requestVars>>
    /\ UNCHANGED <<weatherData, tzOffset, pc, op, nowStart, nowRain, result, first,
                   timingResult, events, rendered>>

\* the function runs on a host in UTC
InitHandler ==
    /\ weatherData = NoData
    /\ clock \in Nows
    /\ tzOffset = 0
    /\ pc = "ready"
    /\ op = "none"
    /\ nowStart = 0
    /\ nowRain = 0
    /\ result = NoResult
    /\ first = NoCall
    /\ timingResult = NoTiming
    /\ events = <<>>
    /\ rendered = <<>>
    /\ RequestIdle
    /\ env \in Environments
    /\ hpc = "start"
    /\ startTime = 0
    /\ emails = <<>>
    /\ handlerResult = NoHandlerResult

NextHandler ==
    \/ HandlerStart
    \/ RequestSettles
    \/ SleepEnds
    \/ AfterFetch
    \/ ReportEmailSettles
    \/ ErrorEmailSettles
    \/ LambdaTimeout

\* every await of the handler is resumed once what it waits for is settled
SpecHandler == InitHandler /\ [][NextHandler]_vars /\ WF_vars(NextHandler)

(***************************************************************************)
(* What the claims speak of, read off the input and the returned message.   *)
(***************************************************************************)
Forecasts == weatherData.list

\* the calendar day of an instant on the host's local clock
HostLocalDay(t) == (t - tzOffset * 60) \div DAY

\* the entries of the forecast set that fall on the day of the first clock read
TodayIndices ==
    { i \in 1..Len(Forecasts) :
        /\ Len(Forecasts[i].dt) = 1
        /\ Forecasts[i].dt[1] # 0
        /\ HostLocalDay(Forecasts[i].dt[1]) = HostLocalDay(nowStart) }

\* the primary category of an entry, when it has one
HasCategory(e) ==
    Len(e.weather) = 1 /\ Len(e.weather[1]) >= 1 /\ Len(e.weather[1][1].main) = 1

CategoryOf(e) == e.weather[1][1].main[1]

RainFamilyCategories == {CAT_Rain, CAT_Thunderstorm, CAT_Drizzle}

RainToday ==
    \E i \in TodayIndices :
        HasCategory(Forecasts[i]) /\ CategoryOf(Forecasts[i]) \in RainFamilyCategories

CloudsToday ==
    \E i \in TodayIndices :
        HasCategory(Forecasts[i]) /\ CategoryOf(Forecasts[i]) = CAT_Clouds

HasNumber(e) == Len(e.main) = 1 /\ e.main[1].temp.type = "number"

TodayTemperatures ==
    { Forecasts[i].main[1].temp.value : i \in { j \in TodayIndices : HasNumber(Forecasts[j]) } }

Tags(message) == { message[i].tag : i \in 1..Len(message) }

Analyzed == op = "analyzeWeather"

\* analyzeWeather returned, and what it returned is a recommendation
ReturnedReport ==
    Analyzed /\ ~result.thrown /\ Len(result.message) > 0 /\ result.message[1].tag = "title"

\* analyzeWeather got past its sentinels and wrote the head of the message and
\* the drying advice (it may still have thrown in analyzeRainTiming after that)
AdviceReached == Analyzed /\ "title" \in Tags(result.message)

\* the today-entries with a numeric temperature, and the sum of these
NumericToday == { j \in TodayIndices : HasNumber(Forecasts[j]) }

RECURSIVE SumOfTemps(_)
SumOfTemps(S) ==
    IF S = {} THEN 0
    ELSE LET j == CHOOSE k \in S : TRUE
         IN  Forecasts[j].main[1].temp.value + SumOfTemps(S \ {j})

\* the mean of today's numeric temperatures against a number of degrees
MeanEquals(deg) == SumOfTemps(NumericToday) = deg * 10 * Cardinality(NumericToday)
MeanBelow(deg) == SumOfTemps(NumericToday) < deg * 10 * Cardinality(NumericToday)

MaxEquals(deg) ==
    /\ \E t \in TodayTemperatures : t = deg * 10
    /\ \A t \in TodayTemperatures : t <= deg * 10

MaxAbove(deg) == \E t \in TodayTemperatures : t > deg * 10

DryingTags == {"drying-rain", "drying-damp-risk", "drying-good"}
UmbrellaTags == {"umbrella-bring-rain", "umbrella-bring-sun", "umbrella-not-needed"}

\* the advice categories the message carries
DryingAdvice == Tags(result.message) \cap DryingTags
UmbrellaAdvice == Tags(result.message) \cap UmbrellaTags

EmptyInput == ~weatherData.present \/ ~weatherData.hasList \/ Len(Forecasts) = 0

(***************************************************************************)
(* C1. Priority law: whenever analyzeWeather reaches the advice steps and a  *)
(* today-entry has a category of the rain family (Rain, Thunderstorm,       *)
(* Drizzle, whatever the case of its letters), the drying advice it writes  *)
(* is 'rain' and the umbrella advice it returns is 'bring-rain', whatever   *)
(* the temperatures and the cloud categories of today.                      *)
(***************************************************************************)
C1_RainPriority ==
    /\ (AdviceReached /\ RainToday) => DryingAdvice = {"drying-rain"}
    /\ (ReturnedReport /\ RainToday) => UmbrellaAdvice = {"umbrella-bring-rain"}

\* a recommendation for a day with rain, clouds and a maximum above 35 degrees
C1_Witness ==
    /\ ReturnedReport /\ RainToday /\ CloudsToday
    /\ \E t \in TodayTemperatures : t > HIGH_TEMP_THRESHOLD * 10
    /\ DryingAdvice = {"drying-rain"}

(***************************************************************************)
(* C2. For a forecast set that is null, has no list or has an empty list,   *)
(* analyzeWeather returns the empty-input sentinel and nothing else: no     *)
(* temperature, advice or rain-timing line, and no rain event.              *)
(***************************************************************************)
C2_EmptyInputSentinel ==
    (Analyzed /\ EmptyInput) =>
        /\ ~result.thrown
        /\ result.message = <<TextLine(MSG_EMPTY)>>
        /\ result.rainForecast = <<>>

C2_Witness ==
    /\ Analyzed /\ weatherData.present /\ weatherData.hasList /\ Len(Forecasts) = 0
    /\ result.message = <<TextLine(MSG_EMPTY)>>

(***************************************************************************)
(* C3. For a non-empty forecast set in which no entry falls on today's      *)
(* local date (entries without a timestamp fall on no date), analyzeWeather *)
(* returns the no-data-for-today sentinel, which differs from the           *)
(* empty-input sentinel and from the no-temperature sentinel.               *)
(***************************************************************************)
C3_NoTodaySentinel ==
    (Analyzed /\ ~EmptyInput /\ TodayIndices = {}) =>
        /\ ~result.thrown
        /\ result.message = <<TextLine(MSG_NO_TODAY)>>
        /\ result.message # <<TextLine(MSG_EMPTY)>>
        /\ result.message # <<TextLine(MSG_NO_TEMP)>>

\* a set of an entry without a timestamp and an entry of another day
C3_Witness ==
    /\ Analyzed /\ Len(Forecasts) = 2 /\ TodayIndices = {}
    /\ Len(Forecasts[1].dt) = 0 /\ Len(Forecasts[2].dt) = 1
    /\ result.message = <<TextLine(MSG_NO_TODAY)>>

(***************************************************************************)
(* C4. For a forecast set with at least one today-entry in which no         *)
(* today-entry has a numeric temperature (no main block, no temp, a string, *)
(* NaN), analyzeWeather returns the no-temperature sentinel, whatever the   *)
(* weather of these entries.                                                *)
(***************************************************************************)
C4_NoTemperatureSentinel ==
    (Analyzed /\ ~EmptyInput /\ TodayIndices # {} /\ NumericToday = {}) =>
        /\ ~result.thrown
        /\ result.message = <<TextLine(MSG_NO_TEMP)>>

(***************************************************************************)
(* C5. Neither analyzeWeather nor analyzeRainTiming throws on a list of     *)
(* entries with missing nested fields (no weather, weather: [], a weather   *)
(* element without main or description, no main block, no rain, no pop).    *)
(***************************************************************************)
C5_NeverThrows ==
    /\ Analyzed => ~result.thrown
    /\ (op = "analyzeRainTiming" /\ weatherData.present /\ weatherData.hasList)
           => ~timingResult.thrown

(***************************************************************************)
(* C6. The thresholds are strict. Without rain today and with a cloud       *)
(* category today, a mean of exactly 30 degrees gives the drying advice     *)
(* 'good', and 'damp-risk' is written only for a mean below 30; without     *)
(* rain today a maximum of exactly 35 degrees gives the umbrella advice     *)
(* 'not-needed', and 'bring-sun' is returned only for a maximum above 35.   *)
(***************************************************************************)
C6_StrictThresholds ==
    /\ (AdviceReached /\ ~RainToday /\ CloudsToday /\ MeanEquals(TEMP_THRESHOLD))
           => DryingAdvice = {"drying-good"}
    /\ (AdviceReached /\ "drying-damp-risk" \in DryingAdvice) => MeanBelow(TEMP_THRESHOLD)
    /\ (ReturnedReport /\ ~RainToday /\ MaxEquals(HIGH_TEMP_THRESHOLD))
           => UmbrellaAdvice = {"umbrella-not-needed"}
    /\ (ReturnedReport /\ "umbrella-bring-sun" \in UmbrellaAdvice)
           => MaxAbove(HIGH_TEMP_THRESHOLD)

\* clouds, 25 and 35 degrees: the mean is exactly 30 and the maximum exactly 35
C6_Witness ==
    /\ ReturnedReport /\ ~RainToday /\ CloudsToday
    /\ TodayTemperatures = {250, 350}
    /\ MeanEquals(TEMP_THRESHOLD) /\ MaxEquals(HIGH_TEMP_THRESHOLD)
    /\ DryingAdvice = {"drying-good"}
    /\ UmbrellaAdvice = {"umbrella-not-needed"}

(***************************************************************************)
(* C7. Rain-timing cap: the tomorrow section of the rendered rain timing    *)
(* has exactly min(3, number of tomorrow events) lines, which are the first *)
(* tomorrow events in input order; the today section has a line for every   *)
(* today event, in input order.                                             *)
(***************************************************************************)
\* the members of a set of indices, in increasing order
InOrder(S) ==
    [k \in 1..Cardinality(S) |-> CHOOSE i \in S : Cardinality({ j \in S : j <= i }) = k]

TodayEventIndices == InOrder({ i \in 1..Len(events) : events[i].isToday })
TomorrowEventIndices == InOrder({ i \in 1..Len(events) : ~events[i].isToday })

LinesTagged(tag) == InOrder({ i \in 1..Len(rendered) : rendered[i].tag = tag })

\* the line is the one of that event
LineOf(line, event) == line.t = event.time /\ line.n = event.probability

Min(a, b) == IF a < b THEN a ELSE b

C7_TomorrowCap ==
    op = "formatRainTiming" =>
        /\ Len(LinesTagged("tomorrow-rain")) = Min(TOMORROW_LIMIT, Len(TomorrowEventIndices))
        /\ \A k \in 1..Len(LinesTagged("tomorrow-rain")) :
               LineOf(rendered[LinesTagged("tomorrow-rain")[k]], events[TomorrowEventIndices[k]])
        /\ Len(LinesTagged("today-rain")) = Len(TodayEventIndices)
        /\ \A k \in 1..Len(LinesTagged("today-rain")) :
               LineOf(rendered[LinesTagged("today-rain")[k]], events[TodayEventIndices[k]])

\* four tomorrow events of different times and one today event
C7_Witness ==
    /\ op = "formatRainTiming"
    /\ Len(TomorrowEventIndices) = 4
    /\ Cardinality({ events[TomorrowEventIndices[k]].time : k \in 1..4 }) = 4
    /\ Len(LinesTagged("tomorrow-rain")) = 3
    /\ Len(TodayEventIndices) = 1

(***************************************************************************)
(* C8. Determinism: two calls of analyzeWeather on the same forecast set    *)
(* that start at the same instant return identical results.                *)
(***************************************************************************)
C8_Deterministic ==
    (pc = "again" /\ first.nowStart = nowStart) => first.result = result

(***************************************************************************)
(* C9. The list analyzeRainTiming returns has exactly one event for each    *)
(* entry whose local date is today or tomorrow and whose category is of the *)
(* rain family, none for another entry, in input order, duplicates kept.    *)
(***************************************************************************)
\* the list analyzeRainTiming returned, on its own or within analyzeWeather
TimingReturned ==
    \/ op = "analyzeRainTiming" /\ ~timingResult.thrown
    \/ ReturnedReport

TimingList == IF op = "analyzeRainTiming" THEN timingResult.list ELSE result.rainForecast

SelectedIndices ==
    InOrder({ i \in 1..Len(Forecasts) :
                /\ Len(Forecasts[i].dt) = 1
                /\ HostLocalDay(Forecasts[i].dt[1]) \in
                       {HostLocalDay(nowRain), HostLocalDay(nowRain) + 1}
                /\ HasCategory(Forecasts[i])
                /\ CategoryOf(Forecasts[i]) \in RainFamilyCategories })

LowerCased(category) ==
    CASE category = CAT_Rain -> STR_rain
      [] category = CAT_Thunderstorm -> STR_thunderstorm
      [] category = CAT_Drizzle -> STR_drizzle

\* the event is the one of that entry
EventOf(event, e) ==
    /\ event.intensity = LowerCased(CategoryOf(e))
    /\ event.description = e.weather[1][1].description
    /\ event.isToday = (HostLocalDay(e.dt[1]) = HostLocalDay(nowRain))

C9_RainTimingSelection ==
    TimingReturned =>
        /\ Len(TimingList) = Len(SelectedIndices)
        /\ \A k \in 1..Len(SelectedIndices) :
               EventOf(TimingList[k], Forecasts[SelectedIndices[k]])

\* an entry of tomorrow ahead of an entry of today: two events, in that order
C9_Witness ==
    /\ op = "analyzeRainTiming" /\ ~timingResult.thrown
    /\ Len(Forecasts) = 2 /\ Len(SelectedIndices) = 2
    /\ ~timingResult.list[1].isToday /\ timingResult.list[2].isToday
    /\ timingResult.list[1].intensity = STR_rain

(***************************************************************************)
(* C10. The date that decides today/tomorrow (and isToday) and the time of  *)
(* day of a RainEvent are both those of timestamp + the fixed offset of the *)
(* target location (UTC+7), whatever the timezone of the host: an entry at  *)
(* 14:00 of today's date there gives time 14:00 and isToday = TRUE.         *)
(***************************************************************************)
TargetInstant(t) == t + BANGKOK_UTC_OFFSET_MIN * 60
TargetDay(t) == TargetInstant(t) \div DAY
TargetTime(t) == <<(TargetInstant(t) % DAY) \div 3600, ((TargetInstant(t) % DAY) % 3600) \div 60>>

TargetSelectedIndices ==
    InOrder({ i \in 1..Len(Forecasts) :
                /\ Len(Forecasts[i].dt) = 1
                /\ TargetDay(Forecasts[i].dt[1]) \in {TargetDay(nowRain), TargetDay(nowRain) + 1}
                /\ HasCategory(Forecasts[i])
                /\ CategoryOf(Forecasts[i]) \in RainFamilyCategories })

C10_FixedOffsetBucketing ==
    (op = "analyzeRainTiming" /\ ~timingResult.thrown) =>
        /\ Len(timingResult.list) = Len(TargetSelectedIndices)
        /\ \A k \in 1..Len(TargetSelectedIndices) :
               LET dt == Forecasts[TargetSelectedIndices[k]].dt[1]
               IN  /\ timingResult.list[k].time = TargetTime(dt)
                   /\ timingResult.list[k].isToday = (TargetDay(dt) = TargetDay(nowRain))

(***************************************************************************)
(* C11. Umbrella onset: a returned message whose umbrella advice is         *)
(* 'bring-rain' and whose rain-timing list has an event of today carries    *)
(* exactly one onset line, with the time of day of the first event of today *)
(* in the list; a message with another umbrella advice, or with events of   *)
(* tomorrow only, carries no onset line.                                    *)
(***************************************************************************)
TodayEventsReturned == { i \in 1..Len(result.rainForecast) : result.rainForecast[i].isToday }

OnsetLines == { i \in 1..Len(result.message) : result.message[i].tag = "rain-onset" }

C11_UmbrellaOnset ==
    ReturnedReport =>
        IF UmbrellaAdvice = {"umbrella-bring-rain"} /\ TodayEventsReturned # {}
        THEN /\ Cardinality(OnsetLines) = 1
             /\ \A i \in OnsetLines :
                    result.message[i].t =
                        result.rainForecast[
                            CHOOSE k \in TodayEventsReturned :
                                \A j \in TodayEventsReturned : k <= j].time
        ELSE OnsetLines = {}

\* an event of tomorrow ahead of the event of today: the onset is the second's
C11_Witness ==
    /\ ReturnedReport /\ UmbrellaAdvice = {"umbrella-bring-rain"}
    /\ Len(result.rainForecast) = 2
    /\ TodayEventsReturned = {2}
    /\ result.rainForecast[1].time # result.rainForecast[2].time
    /\ Cardinality(OnsetLines) = 1

(***************************************************************************)
(* C14. Non-rain decision table: with no rain-family category today, the    *)
(* drying advice is 'damp-risk' iff a category of today is cloud and the    *)
(* mean temperature is below 30, else 'good'; the umbrella advice is        *)
(* 'bring-sun' iff the maximum is above 35, else 'not-needed'.  A returned  *)
(* recommendation has exactly one drying line and one umbrella line.        *)
(***************************************************************************)
DryingLinesOf(message) == { i \in 1..Len(message) : message[i].tag \in DryingTags }
UmbrellaLinesOf(message) == { i \in 1..Len(message) : message[i].tag \in UmbrellaTags }

C14_NonRainTable ==
    /\ (AdviceReached /\ ~RainToday) =>
           DryingAdvice = IF CloudsToday /\ MeanBelow(TEMP_THRESHOLD)
                          THEN {"drying-damp-risk"} ELSE {"drying-good"}
    /\ (ReturnedReport /\ ~RainToday) =>
           UmbrellaAdvice = IF MaxAbove(HIGH_TEMP_THRESHOLD)
                            THEN {"umbrella-bring-sun"} ELSE {"umbrella-not-needed"}
    /\ ReturnedReport =>
           /\ Cardinality(DryingLinesOf(result.message)) = 1
           /\ Cardinality(UmbrellaLinesOf(result.message)) = 1

\* clouds at 25 and 36 degrees: the mean is 30.5, the minimum below 35
C14_Witness ==
    /\ ReturnedReport /\ ~RainToday /\ CloudsToday
    /\ TodayTemperatures = {250, 360}
    /\ DryingAdvice = {"drying-good"}
    /\ UmbrellaAdvice = {"umbrella-bring-sun"}

\* clouds at 25 degrees: damp risk, no umbrella
C14_WitnessDamp ==
    /\ ReturnedReport /\ ~RainToday /\ CloudsToday
    /\ TodayTemperatures = {250}
    /\ DryingAdvice = {"drying-damp-risk"}
    /\ UmbrellaAdvice = {"umbrella-not-needed"}

(***************************************************************************)
(* C15. Rain event fields: the probability of an event is the entry's       *)
(* probability of precipitation times 100, rounded, an integer in 0..100,   *)
(* and 0 when the entry has none; its volume is the entry's 3-hour value    *)
(* whenever that is present, a present 0 included, else the 1-hour value    *)
(* when present, else 0.                                                    *)
(***************************************************************************)
\* pop * 100 rounded, of a probability in thousandths
PercentOf(e) == IF Len(e.pop) = 1 THEN (e.pop[1] + 5) \div 10 ELSE 0

\* the 3-hour value when present, else the 1-hour value when present, else 0
VolumeOf(e) ==
    IF Len(e.rain) = 0 THEN 0
    ELSE IF Len(e.rain[1].h3) = 1 THEN e.rain[1].h3[1]
    ELSE IF Len(e.rain[1].h1) = 1 THEN e.rain[1].h1[1]
    ELSE 0

C15_RainEventFields ==
    TimingReturned =>
        /\ Len(TimingList) = Len(SelectedIndices)
        /\ \A k \in 1..Len(SelectedIndices) :
               /\ TimingList[k].probability = PercentOf(Forecasts[SelectedIndices[k]])
               /\ TimingList[k].probability \in 0..100
               /\ TimingList[k].volume = VolumeOf(Forecasts[SelectedIndices[k]])

(***************************************************************************)
(* C17. One notion of today within a call: the today partition and the      *)
(* isToday flags of the rain events are computed against the same date, so  *)
(* in a returned message there is rain among the entries of today iff the   *)
(* rain-timing list has an event of today; 'bring-rain' comes with an onset *)
(* line and the drying advice is 'rain' exactly when a rain line of today   *)
(* is displayed.                                                            *)
(***************************************************************************)
TodayRainLines == { i \in 1..Len(result.message) : result.message[i].tag = "today-rain" }

C17_SingleToday ==
    ReturnedReport =>
        /\ RainToday <=> TodayEventsReturned # {}
        /\ UmbrellaAdvice = {"umbrella-bring-rain"} => OnsetLines # {}
        /\ DryingAdvice = {"drying-rain"} <=> TodayRainLines # {}

\* the same, for the calls whose two clock reads fall on the same date
C17_SameDate ==
    (ReturnedReport /\ HostLocalDay(nowStart) = HostLocalDay(nowRain)) =>
        /\ RainToday <=> TodayEventsReturned # {}
        /\ UmbrellaAdvice = {"umbrella-bring-rain"} => OnsetLines # {}
        /\ DryingAdvice = {"drying-rain"} <=> TodayRainLines # {}

(***************************************************************************)
(* C13. Bounded retry: makeRequest issues at most MAX_RETRIES attempts and  *)
(* terminates; it returns the value of the first attempt that succeeds and  *)
(* issues no attempt after it; when all MAX_RETRIES attempts fail it throws *)
(* the error of the last one; it sleeps RETRY_DELAY * attempt between two   *)
(* attempts and not after the last failed one.                              *)
(***************************************************************************)
RequestOver == rpc \in {"returned", "thrown"}

Failed(k) == ~attempts[k].resolved

RetryProtocol ==
    /\ Len(attempts) <= MAX_RETRIES
    \* one sleep after every failed attempt but the last possible one
    /\ Len(delays) = Cardinality({ k \in 1..Len(attempts) : Failed(k) /\ k < MAX_RETRIES })
    /\ \A k \in 1..Len(delays) : delays[k] = RETRY_DELAY * k
    \* nothing is issued after a success
    /\ \A k \in 1..Len(attempts) : ~Failed(k) => k = Len(attempts) /\ RequestOver
    /\ rpc = "returned" =>
           /\ Len(attempts) >= 1 /\ ~Failed(Len(attempts))
           /\ ~reqResult.thrown
           /\ reqResult.value = attempts[Len(attempts)].value
    /\ rpc = "thrown" =>
           /\ Len(attempts) = MAX_RETRIES
           /\ \A k \in 1..MAX_RETRIES : Failed(k)
           /\ reqResult.thrown
           /\ reqResult.error = attempts[MAX_RETRIES].error
           /\ reqResult.status = attempts[MAX_RETRIES].status
           /\ Len(delays) = MAX_RETRIES - 1

C13_BoundedRetry ==
    /\ []RetryProtocol
    /\ [][RequestOver => UNCHANGED <<attempts, delays>>]_vars
    /\ <>RequestOver

\* three failures, the last by HTTP status 503 after a time-out: two sleeps
C13_Witness ==
    /\ rpc = "thrown"
    /\ Len(attempts) = MAX_RETRIES
    /\ attempts[2].error = "Request timeout"
    /\ reqResult.error = "HTTP" /\ reqResult.status = 503
    /\ delays = <<RETRY_DELAY, 2 * RETRY_DELAY>>

\* a success at the second attempt: one sleep, no third attempt
C13_WitnessSecond ==
    /\ rpc = "returned"
    /\ Len(attempts) = 2
    /\ reqResult.value.type = "object"
    /\ delays = <<RETRY_DELAY>>

(***************************************************************************)
(* C12. Configuration is rejected before any analysis: in a run of the      *)
(* handler with a required value missing or invalid (a key or an address    *)
(* missing, an address malformed, a latitude outside [-90, 90], a longitude *)
(* outside [-180, 180], a coordinate that is not a number) no forecast      *)
(* request is issued, analyzeWeather is not called, no report e-mail is     *)
(* sent, and the handler returns status 500.                                *)
(***************************************************************************)
\* the values drawn that are what they have to be
WellFormedSenders == {<<STR_sender>>}
WellFormedRecipients == {<<STR_recipient>>}
LatitudesInRange == {<<STR_13_75>>, <<STR_minus_90>>}
LongitudesInRange == {<<STR_100_5>>, <<STR_180>>}

\* a number followed by something else
NumberAndMore == {<<STR_13_75N>>, <<STR_100_comma_5>>}

ConfigInvalid ==
    \/ env.OPENWEATHER_API_KEY \in {NotSet, EmptyString}
    \/ env.SENDER_EMAIL \notin WellFormedSenders
    \/ env.RECIPIENT_EMAIL \notin WellFormedRecipients
    \/ env.LATITUDE \notin LatitudesInRange
    \/ env.LONGITUDE \notin LongitudesInRange

HandlerStarted == hpc \notin {"idle", "start"}

ReportEmails == { i \in 1..Len(emails) : emails[i].kind = "report" }

RejectedBeforeAnalysis ==
    /\ rpc = "idle" /\ attempts = <<>>
    /\ op = "none"
    /\ ReportEmails = {}
    /\ hpc # "killed"
    /\ handlerResult.returned => handlerResult.statusCode = 500

C12_ConfigRejected == (HandlerStarted /\ ConfigInvalid) => RejectedBeforeAnalysis

\* the same, a coordinate that starts with a number in range taken as valid
C12_RejectedUnlessNumberPrefix ==
    ( /\ HandlerStarted
      /\ \/ env.OPENWEATHER_API_KEY \in {NotSet, EmptyString}
         \/ env.SENDER_EMAIL \notin WellFormedSenders
         \/ env.RECIPIENT_EMAIL \notin WellFormedRecipients
         \/ env.LATITUDE \notin (LatitudesInRange \cup NumberAndMore)
         \/ env.LONGITUDE \notin (LongitudesInRange \cup NumberAndMore) )
    => RejectedBeforeAnalysis

(***************************************************************************)
(* C16. Handler outcome protocol: every run of the handler returns; the     *)
(* status is 200 iff validation, the fetch, the analysis and the sending of *)
(* the report e-mail all succeeded, a sentinel message being a report like  *)
(* any other; otherwise it is 500, no report e-mail was sent, and exactly   *)
(* one error e-mail was attempted, after the failure, whose own failure     *)
(* changes nothing.                                                         *)
(***************************************************************************)
ErrorEmails == { i \in 1..Len(emails) : emails[i].kind = "error" }

FetchSucceeded ==
    /\ rpc = "returned"
    /\ reqResult.value.type = "object"
    /\ reqResult.value.data.hasList
    /\ Len(reqResult.value.cod) = 1 => reqResult.value.cod[1].value = 200

AnalysisSucceeded == op = "analyzeWeather" /\ ~result.thrown

AllSucceeded ==
    /\ HandlerStarted
    /\ FetchSucceeded
    /\ AnalysisSucceeded
    /\ emails = <<Email("report", "sent")>>

OutcomeProtocol ==
    handlerResult.returned =>
        /\ hpc = "returned"
        /\ handlerResult.statusCode \in {200, 500}
        /\ handlerResult.statusCode = 200 <=> AllSucceeded
        /\ handlerResult.statusCode = 500 =>
               /\ \A i \in ReportEmails : emails[i].outcome # "sent"
               /\ ErrorEmails = {Len(emails)}
               /\ emails[Len(emails)].outcome \in {"sent", "failed", "unsent"}

C16_HandlerProtocol == []OutcomeProtocol /\ <>handlerResult.returned

\* the runs that return keep to the protocol
C16_ProtocolOfReturns == OutcomeProtocol

\* a sentinel message sent as the report, with status 200
C16_SentinelReported ==
    /\ handlerResult.returned /\ handlerResult.statusCode = 200
    /\ Len(result.message) = 1
    /\ emails = <<Email("report", "sent")>>

====
